---- MODULE Spec2Model ----
(***************************************************************************)
(* OmniTrust forensic pipeline: the investigation payload aggregator, the  *)
(* correlation engine (decision matrix + correlation detection) and the    *)
(* Veritas certificate builder of src/src/forensics/reporter.py.           *)
(*                                                                         *)
(* Encoding of the Python values:                                          *)
(*   - Optional[T]: <<>> is None, <<v>> is the value v;                    *)
(*   - a dict with a known key set is a record whose fields are Optional:  *)
(*     d[k] = <<>> means that the key k is not in the dict;                *)
(*   - milliseconds are integers, ratios / scores / confidences are        *)
(*     integers in hundredths (0.95 is 95, 0.3 is 30);                     *)
(*   - an Enum member is the string Python's str() gives for it            *)
(*     ("LivenessStatus.SPOOF"), its .value is given by EnumValue.         *)
(***************************************************************************)
EXTENDS Integers, Sequences, FiniteSets, TLC

(***************************************************************************)
(* Bounds of the explored inputs.                                          *)
(***************************************************************************)
MaxMismatch == 1

(***************************************************************************)
(* Python helpers.                                                         *)
(***************************************************************************)
None == <<>>

Some(v) == <<v>>

\* dict.get(k, default)
Get(d, k, default) == IF d[k] = None THEN default ELSE d[k][1]

\* str.lower() left out
LowerDropped(s) == s

\* str.lower() on the strings that occur
Lower(s) ==
    CASE s = "LOW" -> "low"
      [] s = "MEDIUM" -> "medium"
      [] s = "HIGH" -> "high"
      [] s = "CRITICAL" -> "critical"
      [] s = "HUMAN" -> "human"
      [] s = "SPOOF" -> "spoof"
      [] s = "UNCERTAIN" -> "uncertain"
      [] s = "LivenessStatus.HUMAN" -> "livenessstatus.human"
      [] s = "LivenessStatus.SPOOF" -> "livenessstatus.spoof"
      [] s = "LivenessStatus.UNCERTAIN" -> "livenessstatus.uncertain"
      [] OTHER -> s

\* str.upper() on the strings that occur
Upper(s) ==
    CASE s = "verified" -> "VERIFIED"
      [] s = "inconclusive" -> "INCONCLUSIVE"
      [] s = "suspicious" -> "SUSPICIOUS"
      [] s = "manipulated" -> "MANIPULATED"
      [] OTHER -> s

\* class VeritasStatus(Enum): a member is identified with its value
VeritasStatus == {"verified", "inconclusive", "suspicious", "manipulated"}

\* the Enum members that reach the engine (LivenessVerifier returns them)
EnumMembers == {"LivenessStatus.HUMAN", "LivenessStatus.SPOOF", "LivenessStatus.UNCERTAIN"}

\* hasattr(x, 'value')
HasValue(x) == x \in EnumMembers

\* x.value of an Enum member
EnumValue(x) ==
    CASE x = "LivenessStatus.HUMAN" -> "human"
      [] x = "LivenessStatus.SPOOF" -> "spoof"
      [] x = "LivenessStatus.UNCERTAIN" -> "uncertain"
      [] OTHER -> x

\* the normalisation without its Enum branch
NormalizeStatusNoEnum(x) == IF x # "" THEN Lower(x) ELSE "unknown"

\* "Normalize status values (handle Enum or string)"
NormalizeStatus(x) ==
    LET s == IF x # "" THEN Lower(x) ELSE "unknown"
    IN  IF HasValue(x) THEN Lower(EnumValue(x)) ELSE s

(***************************************************************************)
(* Keys of the three summaries and the empty dict.  The keys the engine    *)
(* reads but whose value reaches no decision (dynamic_threshold_ms,        *)
(* confidence, spike_ratio, specularity_score) are left out.               *)
(***************************************************************************)
LedgerKeys == {"verified", "status"}

SyncKeys == {"overall_risk_level", "overall_risk_score", "mismatch_count",
             "max_delta_ms", "network_jitter_ms"}

LivenessKeys == {"status", "smoothing_ratio"}

MetadataKeys == {"investigation_id"}

EmptyDict(keys) == [k \in keys |-> None]

\* `x or {}` for an Optional dict argument: the dict that fills the slot
OrEmptyDropped(x, keys) == x

OrEmpty(x, keys) == IF x = None THEN Some(EmptyDict(keys)) ELSE x

(***************************************************************************)
(* ForensicInvestigator._apply_decision_matrix.  m is the record of the    *)
(* extracted metrics.  A reasoning string is the record of its fixed       *)
(* opening (rule) and of the items formatted into it (details).            *)
(***************************************************************************)
\* the ledger rule keyed on one status instead of on every unverified one
LedgerMismatchOneStatus(m) == ~m.ledger_verified /\ m.ledger_status = "hash_mismatch"

\* "Ledger mismatch is critical"
LedgerMismatch(m) == ~m.ledger_verified /\ m.ledger_status # "hash_not_found"

\* the sync check without its mismatch-count clause
SyncFailedRawNoMismatch(m) ==
    LET sync_risk_str == NormalizeStatus(m.sync_risk_level)
    IN  \/ sync_risk_str \in {"high", "critical"}
        \/ m.sync_max_delta > 200

\* "Check Sync Engine failure", before the jitter adjustment
SyncFailedRaw(m) ==
    LET sync_risk_str == NormalizeStatus(m.sync_risk_level)
    IN  \/ sync_risk_str \in {"high", "critical"}
        \/ m.sync_max_delta > 200
        \/ (m.sync_mismatch_count > 0 /\ m.sync_max_delta > 100)

\* the jitter adjustment with a mistyped threshold
JitterMitigatedAt500(m) == SyncFailedRaw(m) /\ m.network_jitter > 500

\* "High jitter mitigates sync failure"
JitterMitigated(m) == SyncFailedRaw(m) /\ m.network_jitter > 50

\* sync_failed with the jitter adjustment left out
SyncFailedUnadjusted(m) == SyncFailedRaw(m)

\* sync_failed after the jitter adjustment
SyncFailed(m) == SyncFailedRaw(m) /\ ~JitterMitigated(m)

\* "Check Liveness failure"
LivenessFailed(m) == NormalizeStatus(m.liveness_status) = "spoof"

Failures(m) == (IF SyncFailed(m) THEN 1 ELSE 0) + (IF LivenessFailed(m) THEN 1 ELSE 0)

FailureDetails(m) ==
    (IF JitterMitigated(m) THEN <<"Sync issues mitigated by high network jitter">>
     ELSE IF SyncFailedRaw(m) THEN <<"Sync Engine detected mismatch(es)">>
     ELSE <<>>)
    \o (IF LivenessFailed(m) THEN <<"Liveness detection failed">> ELSE <<>>)

\* the noise test with the mitigation threshold in place of its own
TechnicalNoiseAt50(m) ==
    \/ m.network_jitter > 50
    \/ (m.sync_risk_score > 30 /\ m.sync_risk_score < 50)
    \/ (m.liveness_smoothing_ratio > 30 /\ m.liveness_smoothing_ratio < 60)

TechnicalNoise(m) ==
    \/ m.network_jitter > 30
    \/ (m.sync_risk_score > 30 /\ m.sync_risk_score < 50)
    \/ (m.liveness_smoothing_ratio > 30 /\ m.liveness_smoothing_ratio < 60)

NoiseReasons(m) ==
    (IF m.network_jitter > 30 THEN <<"high network jitter">> ELSE <<>>)
    \o (IF m.liveness_smoothing_ratio > 30 THEN <<"camera smoothing detected">> ELSE <<>>)

Result(v, c, rule, details) ==
    [verdict |-> v, confidence |-> c, reasoning |-> [rule |-> rule, details |-> details]]

ApplyDecisionMatrix(m) ==
    LET sync_risk_str == NormalizeStatus(m.sync_risk_level)
        liveness_status_str == NormalizeStatus(m.liveness_status)
        failures == Failures(m)
    IN  IF LedgerMismatch(m)
          THEN Result("manipulated", 95, "CRITICAL: Ledger hash mismatch detected", <<>>)
        ELSE IF failures >= 2
          THEN Result("manipulated", 85 + (failures * 5),
                      "MANIPULATED: Multiple security layers failed", FailureDetails(m))
        ELSE IF failures = 1
          THEN IF m.sync_max_delta > 200
                 THEN Result("suspicious", 75, "SUSPICIOUS: Significant sync gap detected", <<>>)
               ELSE IF LivenessFailed(m)
                 THEN Result("suspicious", 70, "SUSPICIOUS: Liveness detection failed", <<>>)
               ELSE Result("suspicious", 65, "SUSPICIOUS: Security layer failure detected",
                           <<FailureDetails(m)[1]>>)
        ELSE IF TechnicalNoise(m) /\ failures = 0
          THEN Result("inconclusive", 60, "INCONCLUSIVE: Technical noise detected",
                      NoiseReasons(m))
        ELSE IF m.ledger_verified /\ sync_risk_str \in {"low", "medium"}
                /\ liveness_status_str = "human"
          THEN Result("verified", 95, "VERIFIED: All security layers passed", <<>>)
        ELSE IF sync_risk_str \in {"low"} /\ liveness_status_str = "human"
          THEN Result("verified", 85, "VERIFIED: Sync and Liveness layers passed", <<>>)
        ELSE Result("inconclusive", 50, "INCONCLUSIVE: Mixed signals detected", <<>>)

(***************************************************************************)
(* ForensicInvestigator._identify_correlations.                            *)
(***************************************************************************)
JitterMitigationCorrelation(m) ==
    IF m.sync_max_delta > 50 /\ m.network_jitter > 50
    THEN << [type |-> "jitter_mitigation",
             description |-> "Sync issues mitigated by high network jitter",
             impact |-> "lowers_risk",
             details |-> [sync_delta_ms |-> m.sync_max_delta,
                          network_jitter_ms |-> m.network_jitter]] >>
    ELSE <<>>

MultiLayerFailureCorrelation(m) ==
    IF ~m.ledger_verified /\ NormalizeStatus(m.liveness_status) = "spoof"
    THEN << [type |-> "multi_layer_failure",
             description |-> "Liveness failure combined with ledger mismatch",
             impact |-> "escalates_to_critical",
             severity |-> "critical"] >>
    ELSE <<>>

\* the sync-passed correlation reported whatever the liveness status
SophisticatedSpoofCorrelationAnyStatus(m) ==
    IF m.sync_risk_score < 40
    THEN << [type |-> "sophisticated_spoof",
             description |-> "Liveness failed but sync passed - possible high-quality deepfake",
             impact |-> "suspicious",
             details |-> [liveness_status |-> NormalizeStatus(m.liveness_status),
                          sync_risk_score |-> m.sync_risk_score]] >>
    ELSE <<>>

SophisticatedSpoofCorrelation(m) ==
    IF NormalizeStatus(m.liveness_status) = "spoof" /\ m.sync_risk_score < 40
    THEN << [type |-> "sophisticated_spoof",
             description |-> "Liveness failed but sync passed - possible high-quality deepfake",
             impact |-> "suspicious",
             details |-> [liveness_status |-> NormalizeStatus(m.liveness_status),
                          sync_risk_score |-> m.sync_risk_score]] >>
    ELSE <<>>

IdentifyCorrelations(m) ==
    JitterMitigationCorrelation(m) \o MultiLayerFailureCorrelation(m)
        \o SophisticatedSpoofCorrelation(m)

(***************************************************************************)
(* ForensicInvestigator.analyze_investigation_payload.  A summary slot     *)
(* that holds None makes `.get` raise AttributeError.                      *)
(***************************************************************************)
ExtractMetrics(sensor_data) ==
    LET ledger == sensor_data.ledger[1]
        sync == sensor_data.sync_engine[1]
        liveness == sensor_data.liveness[1]
    IN  [ledger_verified |-> Get(ledger, "verified", FALSE),
         ledger_status |-> Get(ledger, "status", "unknown"),
         sync_risk_level |-> Get(sync, "overall_risk_level", "unknown"),
         sync_risk_score |-> Get(sync, "overall_risk_score", 0),
         sync_mismatch_count |-> Get(sync, "mismatch_count", 0),
         sync_max_delta |-> Get(sync, "max_delta_ms", 0),
         network_jitter |-> Get(sync, "network_jitter_ms", 0),
         liveness_status |-> Get(liveness, "status", "unknown"),
         liveness_smoothing_ratio |-> Get(liveness, "smoothing_ratio", 0)]

AnalysisRaises(p) ==
    \/ p.sensor_data.ledger = None
    \/ p.sensor_data.sync_engine = None
    \/ p.sensor_data.liveness = None

AnalyzeInvestigationPayload(p) ==
    LET m == ExtractMetrics(p.sensor_data)
        r == ApplyDecisionMatrix(m)
    IN  [verdict |-> r.verdict,
         confidence |-> r.confidence,
         reasoning |-> r.reasoning,
         correlations |-> IdentifyCorrelations(m),
         raw_analysis |-> [ledger_status |-> m.ledger_status,
                           sync_risk_level |-> m.sync_risk_level,
                           liveness_status |-> m.liveness_status,
                           network_jitter_ms |-> m.network_jitter,
                           sync_max_delta_ms |-> m.sync_max_delta]]

(***************************************************************************)
(* gather_sensor_data.  now is datetime.now(timezone.utc) at the call; a   *)
(* clock instant is an integer number of half seconds, isoformat() keeps   *)
(* the instant and strftime('%Y%m%d%H%M%S') keeps only its whole seconds.  *)
(***************************************************************************)
Isoformat(t) == <<"iso", t>>

StrftimeSeconds(t) == t \div 2

GatherSensorData(ledger_data, sync_data, liveness_data, metadata, now) ==
    [investigation_id |->
         IF metadata # None /\ metadata[1] # EmptyDict(MetadataKeys)
         THEN metadata[1]["investigation_id"] ELSE None,
     timestamp |-> Isoformat(now),
     metadata |-> IF metadata = None THEN EmptyDict(MetadataKeys) ELSE metadata[1],
     sensor_data |-> [ledger |-> OrEmpty(ledger_data, LedgerKeys),
                      sync_engine |-> OrEmpty(sync_data, SyncKeys),
                      liveness |-> OrEmpty(liveness_data, LivenessKeys)]]

(***************************************************************************)
(* _generate_narrative_summary: the parts of the fixed-structure text.     *)
(***************************************************************************)
GenerateNarrativeSummary(analysis) ==
    [header |-> "FORENSIC ANALYSIS SUMMARY",
     verdict |-> Upper(analysis.verdict),
     confidence |-> analysis.confidence,
     findings |-> analysis.reasoning,
     key_correlations |->
         [i \in DOMAIN analysis.correlations |-> analysis.correlations[i].description],
     legend |-> <<"1. Ledger Verification", "2. Sync Engine", "3. Liveness Detection">>]

(***************************************************************************)
(* generate_veritas_report, for a payload whose analysis does not raise.   *)
(* now is the clock when the certificate is built.                         *)
(***************************************************************************)
\* an evidence trail rebuilt from the extracted metrics, defaults filled in
EvidenceTrailFromMetrics(p, raw_analysis) ==
    LET m == ExtractMetrics(p.sensor_data)
    IN  [ledger |-> [verified |-> Some(m.ledger_verified), status |-> Some(m.ledger_status)],
         sync_engine |-> p.sensor_data.sync_engine[1],
         liveness |-> p.sensor_data.liveness[1],
         raw_analysis |-> raw_analysis]

\* "evidence_trail": the three summaries of the payload and the raw analysis
EvidenceTrail(p, raw_analysis) ==
    [ledger |-> p.sensor_data.ledger[1],
     sync_engine |-> p.sensor_data.sync_engine[1],
     liveness |-> p.sensor_data.liveness[1],
     raw_analysis |-> raw_analysis]

GenerateVeritasReport(p, now) ==
    LET analysis == AnalyzeInvestigationPayload(p)
    IN  [certificate_id |->
             IF p.investigation_id # None /\ p.investigation_id # <<"">>
             THEN <<"id", p.investigation_id[1]>>
             ELSE <<"VERITAS-", StrftimeSeconds(now)>>,
         timestamp |-> p.timestamp,
         verdict |-> Upper(analysis.verdict),
         confidence_score |-> analysis.confidence,
         narrative_summary |-> GenerateNarrativeSummary(analysis),
         correlations |-> analysis.correlations,
         evidence_trail |-> EvidenceTrail(p, analysis.raw_analysis)]

(***************************************************************************)
(* src/services/azure_face.py.  Times are whole milliseconds.  Intensities,*)
(* variances, ratios and confidences are exact fractions <<n, d>> in       *)
(* lowest terms with d > 0 (the code computes them in binary floating      *)
(* point; the inputs explored are ones on which the two agree).            *)
(***************************************************************************)
RECURSIVE GCD(_, _)
GCD(a, b) == IF b = 0 THEN a ELSE GCD(b, a % b)

Abs(x) == IF x < 0 THEN -x ELSE x

Rat(n, d) ==
    LET g == GCD(Abs(n), Abs(d))
        s == IF d < 0 THEN -1 ELSE 1
    IN  <<(s * n) \div g, (s * d) \div g>>

RZero == <<0, 1>>

ROne == <<1, 1>>

RAdd(x, y) ==
    LET g == GCD(x[2], y[2])
    IN  Rat(x[1] * (y[2] \div g) + y[1] * (x[2] \div g), (x[2] \div g) * y[2])

RNeg(x) == <<-x[1], x[2]>>

RSub(x, y) == RAdd(x, RNeg(y))

RMul(x, y) ==
    LET a == Rat(x[1], y[2])
        b == Rat(y[1], x[2])
    IN  <<a[1] * b[1], a[2] * b[2]>>

RDiv(x, y) == RMul(x, Rat(y[2], y[1]))

RAbs(x) == <<Abs(x[1]), x[2]>>

RLt(x, y) == x[1] * y[2] < y[1] * x[2]

RLe(x, y) == x[1] * y[2] <= y[1] * x[2]

RMax(x, y) == IF RLt(x, y) THEN y ELSE x

RECURSIVE RSumTo(_, _)
RSumTo(xs, n) == IF n = 0 THEN RZero ELSE RAdd(RSumTo(xs, n - 1), xs[n])

\* sum(xs), added up from the left
RSum(xs) == RSumTo(xs, Len(xs))

\* sum(values) / len(values)
Mean(xs) == RDiv(RSum(xs), <<Len(xs), 1>>)

(***************************************************************************)
(* StrobeChallenge                                                         *)
(***************************************************************************)
NumFrames == 10

CHALLENGE_COLORS ==
    << <<255, 0, 0>>, <<0, 255, 0>>, <<0, 0, 255>>, <<255, 255, 0>>, <<255, 0, 255>>,
       <<0, 255, 255>>, <<255, 255, 255>>, <<0, 0, 0>>, <<255, 128, 0>>, <<128, 0, 255>> >>

\* StrobeChallenge.__init__
StrobeChallenge(flash_duration_ms, interval_ms) ==
    [flash_duration_ms |-> flash_duration_ms, interval_ms |-> interval_ms, frames |-> <<>>]

\* the loop of generate_challenge over colors[i ..], current_time being the
\* timestamp of the next frame
RECURSIVE ChallengeLoop(_, _, _, _)
ChallengeLoop(colors, i, current_time, step) ==
    IF i > Len(colors) THEN <<>>
    ELSE <<[color |-> colors[i], timestamp_ms |-> current_time, frame_index |-> i - 1]>>
         \o ChallengeLoop(colors, i + 1, current_time + step, step)

\* the frames generate_challenge stores in self.frames and returns
GenerateChallengeFrames(challenge, start_time_ms) ==
    ChallengeLoop(SubSeq(CHALLENGE_COLORS, 1, NumFrames), 1, start_time_ms,
                  challenge.flash_duration_ms + challenge.interval_ms)

(***************************************************************************)
(* LivenessVerifier, with the thresholds of its constructor's defaults.    *)
(* A PixelSample is [timestamp_ms, intensity, variance]; its r, g and b    *)
(* are never read by the verifier.                                         *)
(***************************************************************************)
\* class LivenessStatus(Enum): a member is written as str() prints it
LivenessStatus ==
    [HUMAN |-> "LivenessStatus.HUMAN", SPOOF |-> "LivenessStatus.SPOOF",
     UNCERTAIN |-> "LivenessStatus.UNCERTAIN"]

spike_threshold == <<3, 10>>

smoothing_threshold == <<1, 10>>

specularity_threshold == <<1, 20>>

response_window_ms == 50

BaselineWindowMs == 50

ImmediateMs == 20

\* the place sorted() gives to pixel_samples[i]: behind every sample with an
\* earlier timestamp and every earlier sample with the same timestamp
SortedPosition(pixel_samples, i) ==
    1 + Cardinality({j \in DOMAIN pixel_samples :
                        \/ pixel_samples[j].timestamp_ms < pixel_samples[i].timestamp_ms
                        \/ /\ pixel_samples[j].timestamp_ms = pixel_samples[i].timestamp_ms
                           /\ j < i})

\* sorted(pixel_samples, key=lambda x: x.timestamp_ms)
SortedSamples(pixel_samples) ==
    [p \in DOMAIN pixel_samples |->
        pixel_samples[CHOOSE i \in DOMAIN pixel_samples :
                          SortedPosition(pixel_samples, i) = p]]

BaselineSamples(sorted_samples, frame) ==
    SelectSeq(sorted_samples,
              LAMBDA s : /\ frame.timestamp_ms - BaselineWindowMs <= s.timestamp_ms
                         /\ s.timestamp_ms < frame.timestamp_ms)

ResponseSamples(sorted_samples, frame) ==
    SelectSeq(sorted_samples,
              LAMBDA s : /\ frame.timestamp_ms <= s.timestamp_ms
                         /\ s.timestamp_ms <= frame.timestamp_ms + response_window_ms)

Intensities(samples) == [i \in DOMAIN samples |-> samples[i].intensity]

Variances(samples) == [i \in DOMAIN samples |-> samples[i].variance]

\* _calculate_variance
CalculateVariance(values) ==
    IF Len(values) < 2 THEN RZero
    ELSE LET mean == Mean(values)
         IN  RDiv(RSum([i \in DOMAIN values |->
                           RMul(RSub(values[i], mean), RSub(values[i], mean))]),
                  <<Len(values), 1>>)

\* _check_smoothed_transition
CheckSmoothedTransition(baseline, response_intensities) ==
    IF Len(response_intensities) < 3 THEN FALSE
    ELSE LET change_rates == [i \in 1 .. Len(response_intensities) - 1 |->
                                 RAbs(RSub(response_intensities[i + 1], response_intensities[i]))]
         IN  RLt(Mean(change_rates), smoothing_threshold)

\* a frame with no baseline or no response sample is passed over
FrameAnalysed(sorted_samples, frame) ==
    /\ BaselineSamples(sorted_samples, frame) # <<>>
    /\ ResponseSamples(sorted_samples, frame) # <<>>

BaselineIntensity(sorted_samples, frame) ==
    Mean(Intensities(BaselineSamples(sorted_samples, frame)))

\* a spike test that takes the first response sample however late it comes
ImmediateSpikeAnyDelay(sorted_samples, frame) ==
    LET first_response == ResponseSamples(sorted_samples, frame)[1]
        intensity_change == RAbs(RSub(first_response.intensity,
                                      BaselineIntensity(sorted_samples, frame)))
    IN  RLe(spike_threshold, intensity_change)

\* the frame counts as an immediate spike
ImmediateSpike(sorted_samples, frame) ==
    LET first_response == ResponseSamples(sorted_samples, frame)[1]
        intensity_change == RAbs(RSub(first_response.intensity,
                                      BaselineIntensity(sorted_samples, frame)))
    IN  /\ RLe(spike_threshold, intensity_change)
        /\ first_response.timestamp_ms - frame.timestamp_ms <= ImmediateMs

\* the frame counts as a smoothed transition
SmoothedTransition(sorted_samples, frame) ==
    LET response_samples == ResponseSamples(sorted_samples, frame)
    IN  /\ Len(response_samples) >= 3
        /\ CheckSmoothedTransition(BaselineIntensity(sorted_samples, frame),
                                   Intensities(response_samples))

\* the frame's entry in specularity_scores
ResponseVariance(sorted_samples, frame) ==
    LET response_samples == ResponseSamples(sorted_samples, frame)
    IN  RMax(CalculateVariance(Intensities(response_samples)),
             CalculateVariance(Variances(response_samples)))

\* a policy that consults the smoothing ratio before the spike ratio
DecideSmoothingFirst(spike_ratio, smoothing_ratio, avg_specularity) ==
    IF RLt(<<3, 5>>, smoothing_ratio)
    THEN [status |-> LivenessStatus.SPOOF, confidence |-> smoothing_ratio]
    ELSE IF RLt(<<7, 10>>, spike_ratio)
    THEN [status |-> LivenessStatus.HUMAN, confidence |-> spike_ratio]
    ELSE IF RLt(avg_specularity, specularity_threshold) /\ RLt(spike_ratio, <<1, 2>>)
    THEN [status |-> LivenessStatus.SPOOF,
          confidence |-> RSub(ROne, RDiv(avg_specularity, specularity_threshold))]
    ELSE [status |-> LivenessStatus.UNCERTAIN,
          confidence |-> RMax(spike_ratio, RSub(ROne, smoothing_ratio))]

\* the decision logic, on the two ratios and the average specularity
Decide(spike_ratio, smoothing_ratio, avg_specularity) ==
    IF RLt(<<7, 10>>, spike_ratio)
    THEN [status |-> LivenessStatus.HUMAN, confidence |-> spike_ratio]
    ELSE IF RLt(<<3, 5>>, smoothing_ratio)
    THEN [status |-> LivenessStatus.SPOOF, confidence |-> smoothing_ratio]
    ELSE IF RLt(avg_specularity, specularity_threshold) /\ RLt(spike_ratio, <<1, 2>>)
    THEN [status |-> LivenessStatus.SPOOF,
          confidence |-> RSub(ROne, RDiv(avg_specularity, specularity_threshold))]
    ELSE [status |-> LivenessStatus.UNCERTAIN,
          confidence |-> RMax(spike_ratio, RSub(ROne, smoothing_ratio))]

\* the result returned when there is no pixel sample
NoSamplesResult ==
    [status |-> LivenessStatus.UNCERTAIN,
     confidence |-> RZero,
     immediate_spikes |-> 0,
     smoothed_transitions |-> 0,
     specularity_score |-> RZero,
     analysis |-> [error |-> "No pixel samples provided"]]

\* the frame-by-frame analysis and the decision
AnalyseFrames(frames, pixel_samples) ==
    LET sorted_samples == SortedSamples(pixel_samples)
        analysed == SelectSeq(frames, LAMBDA f : FrameAnalysed(sorted_samples, f))
        immediate_spikes ==
            Len(SelectSeq(analysed, LAMBDA f : ImmediateSpike(sorted_samples, f)))
        smoothed_transitions ==
            Len(SelectSeq(analysed, LAMBDA f : SmoothedTransition(sorted_samples, f)))
        specularity_scores ==
            [i \in DOMAIN analysed |-> ResponseVariance(sorted_samples, analysed[i])]
        avg_specularity ==
            IF specularity_scores # <<>> THEN Mean(specularity_scores) ELSE RZero
        total_frames == Len(frames)
        spike_ratio == IF total_frames > 0 THEN Rat(immediate_spikes, total_frames) ELSE RZero
        smoothing_ratio ==
            IF total_frames > 0 THEN Rat(smoothed_transitions, total_frames) ELSE RZero
        decision == Decide(spike_ratio, smoothing_ratio, avg_specularity)
    IN  [status |-> decision.status,
         confidence |-> decision.confidence,
         immediate_spikes |-> immediate_spikes,
         smoothed_transitions |-> smoothed_transitions,
         specularity_score |-> avg_specularity,
         spike_ratio |-> spike_ratio,
         smoothing_ratio |-> smoothing_ratio,
         analysis |-> [total_frames |-> total_frames,
                       immediate_spikes |-> immediate_spikes,
                       smoothed_transitions |-> smoothed_transitions,
                       avg_specularity |-> avg_specularity,
                       specularity_threshold |-> specularity_threshold,
                       decision |-> EnumValue(decision.status)]]

\* verify_liveness that goes on to the frame analysis with no sample at all
VerifyLivenessNoEarlyReturn(frames, pixel_samples) ==
    AnalyseFrames(frames, pixel_samples)

\* verify_liveness on a challenge whose frames have been generated
VerifyLiveness(frames, pixel_samples) ==
    IF pixel_samples = <<>> THEN NoSamplesResult
    ELSE AnalyseFrames(frames, pixel_samples)

(***************************************************************************)
(* src/services/ledger.py: LedgerMonitorService.  The container maps each  *)
(* blob name to its content, None when there is no such blob.  _ledger_data*)
(* is [entries, processed_blobs], processed_blobs being the set the code   *)
(* turns the stored list into whenever it reads it.  An entry keeps the    *)
(* fields the operations read back; its size, last_modified, content_type  *)
(* and etag are written and never read.  The ledger file                   *)
(* holds what _save_ledger last wrote, None when there is no file.         *)
(***************************************************************************)
\* hashlib.sha256(...).hexdigest(), taken to be free of collisions
ComputeSha256(file_input) == <<"sha256", file_input>>

\* the default structure of _load_ledger
EmptyLedger == [entries |-> <<>>, processed_blobs |-> {}]

\* _load_ledger
LoadLedger(ledger_file) == IF ledger_file # None THEN ledger_file[1] ELSE EmptyLedger

\* _get_processed_blobs
GetProcessedBlobs(ledger_data) == ledger_data.processed_blobs

\* process_blob that forgets to mark the blob
MarkBlobProcessedDropped(ledger_data, blob_name) == ledger_data

\* _mark_blob_processed
MarkBlobProcessed(ledger_data, blob_name) ==
    [ledger_data EXCEPT !.processed_blobs = GetProcessedBlobs(ledger_data) \cup {blob_name}]

\* the order in which container_client.list_blobs() yields the names
BlobOrder == <<"a.mp4", "b.mp4">>

\* list_new_blobs, by name, when listing the container succeeds
ListNewBlobs(ledger_data, blobs) ==
    SelectSeq(BlobOrder, LAMBDA name : /\ blobs[name] # None
                                       /\ name \notin GetProcessedBlobs(ledger_data))

\* the clock reading of process_blob, later for every later entry
EntryTime(ledger_data) == Len(ledger_data.entries) + 1

\* f"txn_{datetime.now(timezone.utc).strftime('%Y%m%d_%H%M%S_%f')}"
TransactionId(t) == <<"txn", t>>

\* what a storage or file operation of process_blob can do
Faults == {"none", "download", "save"}

\* the RuntimeError process_blob ends with
Raised(blob_name, error) == [status |-> "RuntimeError", blob_name |-> blob_name, error |-> error]

\* process_blob: the service state it leaves and what it returns or raises
ProcessBlob(ledger_data, ledger_file, blobs, blob_name, fault) ==
    IF blobs[blob_name] = None \/ fault = "download"
    THEN [ledger_data |-> ledger_data, ledger_file |-> ledger_file,
          result |-> Raised(blob_name, "Failed to process blob")]
    ELSE LET video_hash == ComputeSha256(blobs[blob_name][1])
             transaction_id == TransactionId(EntryTime(ledger_data))
             timestamp == Isoformat(EntryTime(ledger_data))
             entry == [transaction_id |-> transaction_id, blob_name |-> blob_name,
                       hash |-> video_hash, timestamp |-> timestamp, status |-> "anchored"]
             added == MarkBlobProcessed(
                          [ledger_data EXCEPT !.entries = Append(@, entry)], blob_name)
         IN  IF fault = "save"
             THEN [ledger_data |-> added, ledger_file |-> ledger_file,
                   result |-> Raised(blob_name, "Failed to save ledger file")]
             ELSE [ledger_data |-> added, ledger_file |-> Some(added),
                   result |-> [transaction_id |-> transaction_id, entry_id |-> transaction_id,
                               blob_name |-> blob_name, hash |-> video_hash,
                               timestamp |-> timestamp, status |-> "anchored"]]

\* the loop of monitor_and_process over new_blobs[i ..]; done is the state
\* and the results so far
RECURSIVE MonitorLoop(_, _, _, _, _)
MonitorLoop(done, blobs, new_blobs, i, faults) ==
    IF i > Len(new_blobs) THEN done
    ELSE LET blob_name == new_blobs[i]
             p == ProcessBlob(done.ledger_data, done.ledger_file, blobs, blob_name,
                              faults[blob_name])
             result == IF p.result.status = "RuntimeError"
                       THEN [blob_name |-> blob_name, status |-> "error",
                             error |-> p.result.error]
                       ELSE p.result
         IN  MonitorLoop([ledger_data |-> p.ledger_data, ledger_file |-> p.ledger_file,
                          results |-> Append(done.results, result)],
                         blobs, new_blobs, i + 1, faults)

\* monitor_and_process when listing the container succeeds
MonitorAndProcess(ledger_data, ledger_file, blobs, faults) ==
    MonitorLoop([ledger_data |-> ledger_data, ledger_file |-> ledger_file, results |-> <<>>],
                blobs, ListNewBlobs(ledger_data, blobs), 1, faults)

\* get_entry_by_hash: the index of the first entry with the hash, 0 for None
GetEntryByHash(ledger_data, video_hash) ==
    LET found == {i \in DOMAIN ledger_data.entries : ledger_data.entries[i].hash = video_hash}
    IN  IF found = {} THEN 0 ELSE CHOOSE i \in found : \A j \in found : i <= j

\* verify_hash
VerifyHash(ledger_data, video_hash) ==
    LET i == GetEntryByHash(ledger_data, video_hash)
    IN  IF i # 0
        THEN [verified |-> TRUE,
              transaction_id |-> ledger_data.entries[i].transaction_id,
              entry_id |-> ledger_data.entries[i].transaction_id,
              blob_name |-> ledger_data.entries[i].blob_name,
              timestamp |-> ledger_data.entries[i].timestamp,
              status |-> "integrity_confirmed"]
        ELSE [verified |-> FALSE, status |-> "hash_not_found"]

(***************************************************************************)
(* The inputs explored.  Every threshold of the engine has a value on each *)
(* side of it; an absent key stands for the default (0, "unknown", False). *)
(***************************************************************************)
Opt(S) == {None} \cup {Some(x) : x \in S}

LedgerStatuses == {"integrity_confirmed", "hash_not_found", "hash_mismatch"}

RiskLevels == {"low", "medium", "MEDIUM", "high", "critical"}

RiskScores == {30, 35, 50}

MismatchCounts == 0 .. MaxMismatch

MaxDeltas == {100, 101, 200, 201}

NetworkJitters == {30, 31, 50, 51}

LivenessStatuses == {"human", "spoof", "uncertain", "LivenessStatus.SPOOF"}

SmoothingRatios == {30, 45, 60}

LedgerArgs ==
    Opt([verified : Opt(BOOLEAN), status : Opt(LedgerStatuses)])

SyncArgs ==
    Opt([overall_risk_level : Opt(RiskLevels),
         overall_risk_score : Opt(RiskScores),
         mismatch_count : Opt(MismatchCounts),
         max_delta_ms : Opt(MaxDeltas),
         network_jitter_ms : Opt(NetworkJitters)])

LivenessArgs ==
    Opt([status : Opt(LivenessStatuses), smoothing_ratio : Opt(SmoothingRatios)])

(***************************************************************************)
(* State: the last investigation handled by generate_forensic_report.      *)
(***************************************************************************)
VARIABLES outcome, payload, analysis, certificate

\* the last reading of the wall clock, datetime.now(timezone.utc)
VARIABLE clock

\* the StrobeChallenge object, the start time of its last generate_challenge
\* call, and the last verify_liveness call: its samples, how it ended, and
\* what it returned
VARIABLES strobe_challenge, start_time_ms, pixel_samples, liveness_outcome, liveness_result

\* the blob container, the LedgerMonitorService (_ledger_data and what its
\* ledger file holds), and its last operation with what that returned
VARIABLES blobs, self_ledger_data, ledger_file, ledger_op, ledger_result

\* the (blob name, hash) of every process_blob call that returned an
\* "anchored" result: those of this service, and those of the earlier run
\* whose ledger file it was constructed over
VARIABLE anchored

\* _ledger_data of a second LedgerMonitorService constructed over the same
\* ledger file
VARIABLE second_ledger_data

reportVars == <<outcome, payload, analysis, certificate, clock>>

ledgerVars ==
    <<blobs, self_ledger_data, ledger_file, ledger_op, ledger_result, anchored,
      second_ledger_data>>

livenessVars ==
    <<strobe_challenge, start_time_ms, pixel_samples, liveness_outcome, liveness_result>>

\* a challenge built with (flash_duration_ms, interval_ms), nothing verified yet
InitLivenessWith(flash_duration_ms, interval_ms) ==
    /\ strobe_challenge = StrobeChallenge(flash_duration_ms, interval_ms)
    /\ start_time_ms = None
    /\ pixel_samples = <<>>
    /\ liveness_outcome = "idle"
    /\ liveness_result = None

InitReport ==
    /\ outcome = "idle"
    /\ payload = None
    /\ analysis = None
    /\ certificate = None
    /\ clock = 0

\* generate_forensic_report; t1 <= t2 are the clock readings of the two steps
GenerateForensicReport(ledger_data, sync_data, liveness_data, metadata, t1, t2) ==
    /\ outcome = "idle"
    /\ clock <= t1 /\ t1 <= t2
    /\ clock' = t2
    /\ LET p == GatherSensorData(ledger_data, sync_data, liveness_data, metadata, t1)
       IN  /\ payload' = Some(p)
           /\ IF AnalysisRaises(p)
              THEN /\ outcome' = "raised"
                   /\ UNCHANGED <<analysis, certificate>>
              ELSE /\ outcome' = "returned"
                   /\ analysis' = Some(AnalyzeInvestigationPayload(p))
                   /\ certificate' = Some(GenerateVeritasReport(p, t2))
    /\ UNCHANGED <<livenessVars, ledgerVars>>

\* generate_veritas_report called again, at clock reading t, on the payload
\* of the last report
GenerateVeritasReportAgain(t) ==
    /\ outcome = "returned"
    /\ clock <= t
    /\ clock' = t
    /\ analysis' = Some(AnalyzeInvestigationPayload(payload[1]))
    /\ certificate' = Some(GenerateVeritasReport(payload[1], t))
    /\ UNCHANGED <<outcome, payload>>
    /\ UNCHANGED <<livenessVars, ledgerVars>>

vars == <<reportVars, livenessVars, ledgerVars>>

\* a service constructed over ledger_file0, the container empty
InitLedgerWith(ledger_file0) ==
    /\ blobs = [name \in {BlobOrder[i] : i \in DOMAIN BlobOrder} |-> None]
    /\ ledger_file = ledger_file0
    /\ self_ledger_data = LoadLedger(ledger_file0)
    /\ second_ledger_data = LoadLedger(ledger_file0)
    /\ ledger_op = "init"
    /\ ledger_result = None
    /\ anchored = {<<LoadLedger(ledger_file0).entries[i].blob_name,
                     LoadLedger(ledger_file0).entries[i].hash>> :
                       i \in DOMAIN LoadLedger(ledger_file0).entries}

Init == InitReport /\ InitLivenessWith(100, 200) /\ InitLedgerWith(None)

Next ==
    /\ outcome = "idle"
    /\ \E l \in LedgerArgs, s \in SyncArgs, v \in LivenessArgs :
           GenerateForensicReport(l, s, v, None, 0, 0)

Spec == Init /\ [][Next]_vars

(***************************************************************************)
(* The certificate builder under a running clock: reports with and without *)
(* an investigation id, built and rebuilt at any later clock readings.     *)
(***************************************************************************)
MaxClock == 3

MetadataArgs == Opt([investigation_id : Opt({"INV-1"})])

CertLedgerArgs == {None, Some([verified |-> Some(TRUE), status |-> Some("integrity_confirmed")])}

CertSyncArgs == {None, Some([overall_risk_level |-> Some("low"), overall_risk_score |-> None,
                             mismatch_count |-> None, max_delta_ms |-> Some(201),
                             network_jitter_ms |-> Some(51)])}

CertLivenessArgs == {None} \cup {Some([status |-> Some(st), smoothing_ratio |-> None]) :
                                    st \in {"human", "spoof"}}

NextCert ==
    \/ /\ outcome = "idle"
       /\ \E l \in CertLedgerArgs, s \in CertSyncArgs, v \in CertLivenessArgs,
              md \in MetadataArgs, t1 \in 0 .. MaxClock, t2 \in 0 .. MaxClock :
              GenerateForensicReport(l, s, v, md, t1, t2)
    \/ \E t \in 0 .. MaxClock : GenerateVeritasReportAgain(t)

SpecCert == Init /\ [][NextCert]_vars

(***************************************************************************)
(* The strobe challenge and the liveness verifier.  A challenge is built   *)
(* with one of ChallengeConfigs, generated any number of times, and then   *)
(* verified once against a list of pixel samples.  The list is laid out    *)
(* frame by frame: the first k frames get the samples of one pattern, the  *)
(* others those of a later one, at the pattern's offsets from the frame's *)
(* timestamp, and the list is handed over in time order or reversed.       *)
(***************************************************************************)
MaxStart == 1

StartTimes == 0 .. MaxStart

\* (flash_duration_ms, interval_ms): the defaults, a period as long as the
\* response window, and no duration at all
ChallengeConfigs == {<<100, 200>>, <<20, 30>>, <<0, 0>>}

Sample(offset, intensity, variance) ==
    [offset |-> offset, intensity |-> intensity, variance |-> variance]

Patterns ==
    << <<>>,
       <<Sample(-10, <<1, 4>>, RZero)>>,
       <<Sample(-10, <<1, 4>>, RZero), Sample(10, <<3, 4>>, RZero)>>,
       <<Sample(-10, <<1, 4>>, RZero), Sample(30, <<3, 4>>, RZero)>>,
       <<Sample(-10, <<1, 4>>, RZero), Sample(0, <<1, 4>>, RZero),
         Sample(10, <<5, 16>>, RZero), Sample(20, <<3, 8>>, RZero)>>,
       <<Sample(-10, <<1, 4>>, RZero), Sample(0, <<3, 4>>, RZero),
         Sample(10, <<13, 16>>, RZero), Sample(20, <<7, 8>>, RZero)>>,
       <<Sample(-10, <<1, 4>>, RZero), Sample(0, <<1, 2>>, RZero),
         Sample(10, RZero, RZero), Sample(20, ROne, RZero)>>,
       <<Sample(-50, <<1, 2>>, RZero), Sample(20, <<1, 5>>, RZero)>>,
       <<Sample(-10, <<1, 4>>, RZero), Sample(0, <<1, 4>>, RZero),
         Sample(10, <<1, 4>>, <<1, 2>>)>>,
       <<Sample(-10, RZero, RZero), Sample(0, ROne, RZero), Sample(10, RZero, RZero)>>,
       <<Sample(-10, <<1, 4>>, RZero), Sample(0, <<3, 4>>, RZero),
         Sample(0, <<1, 4>>, RZero)>> >>

\* the PixelSamples of one pattern around one frame
SamplesAt(frame, pattern) ==
    [j \in DOMAIN pattern |-> [timestamp_ms |-> frame.timestamp_ms + pattern[j].offset,
                               intensity |-> pattern[j].intensity,
                               variance |-> pattern[j].variance]]

\* frames that flash at the instant of the frame before them get no
\* samples of their own
RECURSIVE SamplesFrom(_, _, _, _, _)
SamplesFrom(frames, i, a, b, k) ==
    IF i > Len(frames) THEN <<>>
    ELSE (IF i > 1 /\ frames[i].timestamp_ms = frames[i - 1].timestamp_ms THEN <<>>
          ELSE SamplesAt(frames[i], Patterns[IF i <= k THEN a ELSE b]))
         \o SamplesFrom(frames, i + 1, a, b, k)

Reverse(s) == [i \in DOMAIN s |-> s[Len(s) + 1 - i]]

PixelSamplesFor(frames, a, b, k, reversed) ==
    IF reversed THEN Reverse(SamplesFrom(frames, 1, a, b, k))
    ELSE SamplesFrom(frames, 1, a, b, k)

\* generate_challenge(start)
CallGenerateChallenge(start) ==
    /\ liveness_outcome = "idle"
    /\ strobe_challenge' =
           [strobe_challenge EXCEPT !.frames = GenerateChallengeFrames(strobe_challenge, start)]
    /\ start_time_ms' = Some(start)
    /\ UNCHANGED <<pixel_samples, liveness_outcome, liveness_result>>
    /\ UNCHANGED <<reportVars, ledgerVars>>

\* verify_liveness(strobe_challenge, samples)
CallVerifyLiveness(samples) ==
    /\ liveness_outcome = "idle"
    /\ pixel_samples' = samples
    /\ IF strobe_challenge.frames = <<>>
       THEN /\ liveness_outcome' = "raised"
            /\ UNCHANGED liveness_result
       ELSE /\ liveness_outcome' = "returned"
            /\ liveness_result' = Some(VerifyLiveness(strobe_challenge.frames, samples))
    /\ UNCHANGED <<strobe_challenge, start_time_ms>>
    /\ UNCHANGED <<reportVars, ledgerVars>>

InitLiveness ==
    /\ InitReport
    /\ InitLedgerWith(None)
    /\ \E c \in ChallengeConfigs : InitLivenessWith(c[1], c[2])

NextLiveness ==
    \/ \E start \in StartTimes : CallGenerateChallenge(start)
    \/ /\ liveness_outcome = "idle"
       /\ \E a \in DOMAIN Patterns, b \in DOMAIN Patterns, k \in 0 .. NumFrames,
              reversed \in BOOLEAN :
              /\ a < b
              /\ CallVerifyLiveness(PixelSamplesFor(strobe_challenge.frames, a, b, k, reversed))

SpecLiveness == InitLiveness /\ [][NextLiveness]_vars

(***************************************************************************)
(* The ledger service.  Blobs are uploaded to the container from outside;  *)
(* the service processes single blobs, runs monitoring passes and verifies *)
(* hashes, and any download and any save of the ledger file may fail.  A   *)
(* service starts with no ledger file or over the file of an earlier run.  *)
(***************************************************************************)
MaxEntries == 3

BlobNames == {BlobOrder[i] : i \in DOMAIN BlobOrder}

Contents == {"x", "y"}

\* the hashes asked about: those of the contents and one of no blob
VideoHashes == {ComputeSha256(c) : c \in Contents} \cup {ComputeSha256("z")}

\* the ledger file an earlier run left behind
EarlierLedger ==
    ProcessBlob(EmptyLedger, None, [name \in BlobNames |-> Some("x")], "a.mp4", "none").ledger_data

\* a blob is uploaded, or uploaded again with other content
Upload(blob_name, content) ==
    /\ blobs' = [blobs EXCEPT ![blob_name] = Some(content)]
    /\ ledger_op' = "upload"
    /\ ledger_result' = None
    /\ UNCHANGED <<self_ledger_data, ledger_file, anchored, second_ledger_data>>
    /\ UNCHANGED <<reportVars, livenessVars>>

\* process_blob(blob_name)
CallProcessBlob(blob_name, fault) ==
    /\ Len(self_ledger_data.entries) < MaxEntries
    /\ LET p == ProcessBlob(self_ledger_data, ledger_file, blobs, blob_name, fault)
       IN  /\ self_ledger_data' = p.ledger_data
           /\ ledger_file' = p.ledger_file
           /\ ledger_op' = "process_blob"
           /\ ledger_result' = Some(p.result)
           /\ anchored' = IF p.result.status = "anchored"
                          THEN anchored \cup {<<blob_name, p.result.hash>>}
                          ELSE anchored
    /\ UNCHANGED <<blobs, second_ledger_data>>
    /\ UNCHANGED <<reportVars, livenessVars>>

\* monitor_and_process(); faults says what goes wrong for which blob
CallMonitorAndProcess(faults) ==
    /\ Len(self_ledger_data.entries) + Len(ListNewBlobs(self_ledger_data, blobs)) <= MaxEntries
    /\ LET m == MonitorAndProcess(self_ledger_data, ledger_file, blobs, faults)
       IN  /\ self_ledger_data' = m.ledger_data
           /\ ledger_file' = m.ledger_file
           /\ ledger_op' = "monitor_and_process"
           /\ ledger_result' = Some(m.results)
           /\ anchored' = anchored \cup
                  {<<m.results[i].blob_name, m.results[i].hash>> :
                      i \in {j \in DOMAIN m.results : m.results[j].status = "anchored"}}
    /\ UNCHANGED <<blobs, second_ledger_data>>
    /\ UNCHANGED <<reportVars, livenessVars>>

\* monitor_and_process() when listing the container fails: RuntimeError
CallMonitorListFails ==
    /\ ledger_op' = "monitor_and_process raised"
    /\ ledger_result' = Some(Raised("", "Failed to list blobs"))
    /\ UNCHANGED <<blobs, self_ledger_data, ledger_file, anchored, second_ledger_data>>
    /\ UNCHANGED <<reportVars, livenessVars>>

\* verify_hash(video_hash)
CallVerifyHash(video_hash) ==
    /\ ledger_op' = "verify_hash"
    /\ ledger_result' = Some([video_hash |-> video_hash,
                              result |-> VerifyHash(self_ledger_data, video_hash)])
    /\ UNCHANGED <<blobs, self_ledger_data, ledger_file, anchored, second_ledger_data>>
    /\ UNCHANGED <<reportVars, livenessVars>>

InitLedger ==
    /\ InitReport
    /\ InitLivenessWith(100, 200)
    /\ \E ledger_file0 \in {None, Some(EarlierLedger)} : InitLedgerWith(ledger_file0)

NextLedger ==
    \/ \E blob_name \in BlobNames, content \in Contents : Upload(blob_name, content)
    \/ \E blob_name \in BlobNames, fault \in Faults : CallProcessBlob(blob_name, fault)
    \/ \E faults \in [BlobNames -> Faults] : CallMonitorAndProcess(faults)
    \/ CallMonitorListFails
    \/ \E video_hash \in VideoHashes : CallVerifyHash(video_hash)

SpecLedger == InitLedger /\ [][NextLedger]_vars

(***************************************************************************)
(* Two services over one ledger file, their process_blob calls interleaved.*)
(* Each call runs to its end before the next begins; each service keeps    *)
(* the _ledger_data it loaded when it was constructed.                     *)
(***************************************************************************)
\* process_blob(blob_name) on the second service
CallProcessBlobSecond(blob_name, fault) ==
    /\ LET p == ProcessBlob(second_ledger_data, ledger_file, blobs, blob_name, fault)
       IN  /\ second_ledger_data' = p.ledger_data
           /\ ledger_file' = p.ledger_file
           /\ ledger_op' = "process_blob second"
           /\ ledger_result' = Some(p.result)
    /\ UNCHANGED <<blobs, self_ledger_data, anchored>>
    /\ UNCHANGED <<reportVars, livenessVars>>

\* the entries the two services hold between them
SharedEntries == Len(self_ledger_data.entries) + Len(second_ledger_data.entries)

NextShared ==
    \/ \E blob_name \in BlobNames, content \in Contents : Upload(blob_name, content)
    \/ /\ SharedEntries < MaxEntries
       /\ \E blob_name \in BlobNames, fault \in Faults : CallProcessBlob(blob_name, fault)
    \/ /\ SharedEntries < MaxEntries
       /\ \E blob_name \in BlobNames, fault \in Faults :
              CallProcessBlobSecond(blob_name, fault)

SpecShared == InitLedger /\ [][NextShared]_vars

(***************************************************************************)
(* Vocabulary of the properties: what a payload says, read off the payload *)
(* itself with the documented defaults for missing fields.                 *)
(***************************************************************************)
Returned == outcome = "returned"

Ledger == payload[1].sensor_data.ledger[1]

Sync == payload[1].sensor_data.sync_engine[1]

Liveness == payload[1].sensor_data.liveness[1]

Verdict == analysis[1].verdict

Confidence == analysis[1].confidence

CorrelationTypes == {analysis[1].correlations[i].type : i \in DOMAIN analysis[1].correlations}

PLedgerVerified == Get(Ledger, "verified", FALSE)

PLedgerMismatched ==
    ~Get(Ledger, "verified", FALSE) /\ Get(Ledger, "status", "unknown") # "hash_not_found"

PRiskLevelIn(names) == Sync["overall_risk_level"] \in {Some(n) : n \in names}

PMaxDelta == Get(Sync, "max_delta_ms", 0)

PJitter == Get(Sync, "network_jitter_ms", 0)

PMismatchCount == Get(Sync, "mismatch_count", 0)

PRiskScore == Get(Sync, "overall_risk_score", 0)

PSmoothing == Get(Liveness, "smoothing_ratio", 0)

PSpoof == Liveness["status"] \in {Some("spoof"), Some("SPOOF"), Some("LivenessStatus.SPOOF")}

PHuman == Liveness["status"] \in {Some("human"), Some("HUMAN"), Some("LivenessStatus.HUMAN")}

\* the sync layer fails on its own metrics
PSyncTripped ==
    \/ PRiskLevelIn({"high", "HIGH", "critical", "CRITICAL"})
    \/ PMaxDelta > 200
    \/ (PMismatchCount > 0 /\ PMaxDelta > 100)

\* the sync layer counts as failed: tripped and not excused by jitter
PSyncCounted == PSyncTripped /\ PJitter <= 50

PNoLayerFailed == ~PSyncCounted /\ ~PSpoof

PTechnicalNoise ==
    \/ PJitter > 30
    \/ (30 < PRiskScore /\ PRiskScore < 50)
    \/ (30 < PSmoothing /\ PSmoothing < 60)

(***************************************************************************)
(* C1.  Ledger-mismatch dominance: a payload whose ledger is not verified  *)
(* and whose ledger status is not "hash_not_found" gets MANIPULATED with   *)
(* confidence 0.95, whatever the sync and liveness summaries contain.      *)
(***************************************************************************)
C1_LedgerMismatchDominates ==
    (Returned /\ PLedgerMismatched) => (Verdict = "manipulated" /\ Confidence = 95)

\* an explicit mismatch over sync and liveness data that would verify
C1_Witness ==
    /\ Returned
    /\ Ledger["verified"] = Some(FALSE) /\ Ledger["status"] = Some("hash_mismatch")
    /\ PRiskLevelIn({"low"}) /\ PHuman /\ ~PSyncTripped /\ ~PTechnicalNoise
    /\ Verdict = "manipulated" /\ Confidence = 95

(***************************************************************************)
(* C2.  The engine is total: whichever summaries and fields are missing,   *)
(* the report returns (nothing is raised) with a verdict among the four    *)
(* and a confidence in [0,1].                                              *)
(***************************************************************************)
C2_EngineTotal ==
    (outcome # "idle") =>
        /\ Returned
        /\ Verdict \in VeritasStatus
        /\ Confidence \in 0 .. 100
        /\ certificate[1].verdict \in {"VERIFIED", "INCONCLUSIVE", "SUSPICIOUS", "MANIPULATED"}
        /\ certificate[1].confidence_score = Confidence

\* the three summaries all missing
C2_Witness ==
    /\ Returned
    /\ Ledger = EmptyDict(LedgerKeys)
    /\ Sync = EmptyDict(SyncKeys)
    /\ Liveness = EmptyDict(LivenessKeys)
    /\ Verdict \in VeritasStatus

(***************************************************************************)
(* C3.  Rule 9 tolerates a missing ledger entry: with the ledger summary   *)
(* absent or its status "hash_not_found" (and the ledger not verified), no *)
(* layer failed, no technical noise, sync risk LOW and liveness HUMAN, the *)
(* verdict is VERIFIED with confidence 0.85.                               *)
(***************************************************************************)
PLedgerEntryMissing ==
    \/ Ledger = EmptyDict(LedgerKeys)
    \/ (~PLedgerVerified /\ Ledger["status"] = Some("hash_not_found"))

C3_Rule9ToleratesMissingLedger ==
    (Returned /\ PLedgerEntryMissing /\ PNoLayerFailed /\ ~PTechnicalNoise
        /\ PRiskLevelIn({"low", "LOW"}) /\ PHuman)
    => (Verdict = "verified" /\ Confidence = 85)

(***************************************************************************)
(* C4.  Single-failure tiers: ledger not mismatched and exactly one of the *)
(* sync and liveness layers counted as failed gives SUSPICIOUS, with       *)
(* confidence 0.75 when sync is the failing layer and max delta > 200,     *)
(* 0.70 when liveness is the failing layer, 0.65 otherwise.                *)
(***************************************************************************)
C4_SingleFailureTiers ==
    (Returned /\ ~PLedgerMismatched /\ (PSyncCounted # PSpoof))
    => /\ Verdict = "suspicious"
       /\ Confidence = IF PSyncCounted /\ PMaxDelta > 200 THEN 75
                       ELSE IF PSpoof THEN 70
                       ELSE 65

(***************************************************************************)
(* C5.  Jitter mitigation: with the ledger not mismatched and network      *)
(* jitter above 50 ms the sync layer is never counted as a failure, so     *)
(* only a liveness SPOOF can make the verdict SUSPICIOUS, nothing makes it *)
(* MANIPULATED, and without a SPOOF it is neither.                         *)
(***************************************************************************)
C5_JitterMitigation ==
    (Returned /\ ~PLedgerMismatched /\ PJitter > 50)
    => /\ Verdict # "manipulated"
       /\ (Verdict = "suspicious") = PSpoof

\* a tripped sync layer excused by jitter, liveness not a spoof
C5_Witness ==
    /\ Returned /\ ~PLedgerMismatched /\ PJitter > 50
    /\ PSyncTripped /\ PMaxDelta > 200 /\ ~PSpoof
    /\ Verdict = "inconclusive"

(***************************************************************************)
(* C6.  Double failure: ledger not mismatched, sync failed without jitter  *)
(* mitigation and liveness SPOOF give MANIPULATED, confidence 0.95.        *)
(***************************************************************************)
C6_DoubleFailure ==
    (Returned /\ ~PLedgerMismatched /\ PSyncCounted /\ PSpoof)
    => (Verdict = "manipulated" /\ Confidence = 95)

\* sync failed through the mismatch-count clause alone
C6_Witness ==
    /\ Returned /\ PLedgerVerified /\ PSpoof
    /\ PMismatchCount > 0 /\ PMaxDelta > 100 /\ PMaxDelta <= 200
    /\ ~PRiskLevelIn({"high", "HIGH", "critical", "CRITICAL"}) /\ PJitter <= 50
    /\ Verdict = "manipulated" /\ Confidence = 95

(***************************************************************************)
(* C7.  A liveness SPOOF is never cleared: the verdict is SUSPICIOUS or    *)
(* MANIPULATED, and exactly SUSPICIOUS when the sync layer passes and the  *)
(* ledger is not mismatched.                                               *)
(***************************************************************************)
C7_SpoofNeverCleared ==
    (Returned /\ PSpoof)
    => /\ Verdict \in {"suspicious", "manipulated"}
       /\ (~PSyncCounted /\ ~PLedgerMismatched) => Verdict = "suspicious"

\* a spoof reported as an Enum member, with a verified ledger and clean sync
C7_Witness ==
    /\ Returned /\ Liveness["status"] = Some("LivenessStatus.SPOOF")
    /\ PLedgerVerified /\ PRiskLevelIn({"low"}) /\ ~PSyncTripped
    /\ Verdict = "suspicious"

(***************************************************************************)
(* C8.  Technical noise blocks verification: ledger not mismatched, no     *)
(* layer failed and technical noise give INCONCLUSIVE, confidence 0.60.    *)
(***************************************************************************)
C8_NoiseIsInconclusive ==
    (Returned /\ ~PLedgerMismatched /\ PNoLayerFailed /\ PTechnicalNoise)
    => (Verdict = "inconclusive" /\ Confidence = 60)

\* jitter just above 30 ms is the only noise, everything else would verify
C8_Witness ==
    /\ Returned /\ PLedgerVerified /\ PRiskLevelIn({"low"}) /\ PHuman /\ ~PSyncTripped
    /\ PJitter = 31 /\ ~(30 < PRiskScore /\ PRiskScore < 50)
    /\ ~(30 < PSmoothing /\ PSmoothing < 60)
    /\ Verdict = "inconclusive" /\ Confidence = 60

(***************************************************************************)
(* C9.  All-pass verification: ledger verified, no layer failed, no        *)
(* technical noise, sync risk LOW or MEDIUM and liveness HUMAN give        *)
(* VERIFIED, confidence 0.95.                                              *)
(***************************************************************************)
C9_AllPassVerified ==
    (Returned /\ PLedgerVerified /\ PNoLayerFailed /\ ~PTechnicalNoise
        /\ PRiskLevelIn({"low", "LOW", "medium", "MEDIUM"}) /\ PHuman)
    => (Verdict = "verified" /\ Confidence = 95)

\* a MEDIUM risk level in capitals
C9_Witness ==
    /\ Returned /\ PLedgerVerified /\ PNoLayerFailed /\ ~PTechnicalNoise
    /\ PRiskLevelIn({"MEDIUM"}) /\ PHuman
    /\ Verdict = "verified" /\ Confidence = 95

(***************************************************************************)
(* C10.  The multi_layer_failure correlation is in the correlation list    *)
(* if and only if the ledger is mismatched (not verified, status not       *)
(* "hash_not_found") and liveness is SPOOF.                                *)
(***************************************************************************)
C10_MultiLayerFailureIff ==
    Returned => (("multi_layer_failure" \in CorrelationTypes) = (PLedgerMismatched /\ PSpoof))


(***************************************************************************)
(* C11.  sophisticated_spoof flags only a synchrony-passing, liveness-     *)
(* failing subject: when it is in the correlation list, liveness is SPOOF  *)
(* and the sync layer was not counted as failed, so that with a ledger     *)
(* that is not mismatched the verdict is SUSPICIOUS.                       *)
(***************************************************************************)
C11_SophisticatedSpoofMeansSyncPassed ==
    (Returned /\ "sophisticated_spoof" \in CorrelationTypes)
    => /\ PSpoof
       /\ ~PSyncCounted
       /\ ~PLedgerMismatched => Verdict = "suspicious"

(***************************************************************************)
(* C14.  Every certificate has the seven fields, correlations included     *)
(* when the list is empty, and its evidence trail holds the payload's      *)
(* three summaries as they are plus the raw analysis.                      *)
(***************************************************************************)
C14_CertificateComplete ==
    Returned =>
        /\ DOMAIN certificate[1] = {"certificate_id", "timestamp", "verdict", "confidence_score",
                                    "narrative_summary", "correlations", "evidence_trail"}
        /\ certificate[1].correlations = analysis[1].correlations
        /\ DOMAIN certificate[1].evidence_trail = {"ledger", "sync_engine", "liveness", "raw_analysis"}
        /\ certificate[1].evidence_trail.ledger = Ledger
        /\ certificate[1].evidence_trail.sync_engine = Sync
        /\ certificate[1].evidence_trail.liveness = Liveness
        /\ certificate[1].evidence_trail.raw_analysis = analysis[1].raw_analysis

\* no correlation at all, and summaries with missing fields
C14_Witness ==
    /\ Returned
    /\ certificate[1].correlations = <<>>
    /\ Ledger["status"] = None /\ Ledger["verified"] = Some(TRUE)
    /\ Sync["max_delta_ms"] = None
    /\ certificate[1].evidence_trail.ledger = Ledger


(***************************************************************************)
(* C13.  Certificate assembly is pure and idempotent: generate_veritas_    *)
(* report called again on the same payload, at any later wall-clock time,  *)
(* returns the identical certificate (its id and timestamp come from the   *)
(* payload, never from the clock).                                         *)
(***************************************************************************)
C13_CertificateReplayIdentical ==
    [][(outcome = "returned" /\ outcome' = "returned" /\ payload' = payload)
          => certificate' = certificate]_vars


(***************************************************************************)
(* Vocabulary of the liveness properties: the last verify_liveness call    *)
(* and the challenge it was given.                                         *)
(***************************************************************************)
LivenessReturned == liveness_outcome = "returned"

LResult == liveness_result[1]

Frames == strobe_challenge.frames

InUnitRange(x) == RLe(RZero, x) /\ RLe(x, ROne)

(***************************************************************************)
(* C15.  The liveness decision is first match wins: HUMAN with confidence  *)
(* spike_ratio when spike_ratio > 0.7; else SPOOF with confidence          *)
(* smoothing_ratio when smoothing_ratio > 0.6; else SPOOF with confidence  *)
(* 1 - specularity / threshold when the average specularity is below the   *)
(* threshold and spike_ratio < 0.5; else UNCERTAIN with confidence         *)
(* max(spike_ratio, 1 - smoothing_ratio).                                  *)
(***************************************************************************)
C15_DecisionFirstMatchWins ==
    (LivenessReturned /\ pixel_samples # <<>>) =>
        LET spike == LResult.spike_ratio
            smooth == LResult.smoothing_ratio
            spec == LResult.specularity_score
        IN  IF RLt(<<7, 10>>, spike)
            THEN LResult.status = "LivenessStatus.HUMAN" /\ LResult.confidence = spike
            ELSE IF RLt(<<6, 10>>, smooth)
            THEN LResult.status = "LivenessStatus.SPOOF" /\ LResult.confidence = smooth
            ELSE IF RLt(spec, <<5, 100>>) /\ RLt(spike, <<5, 10>>)
            THEN /\ LResult.status = "LivenessStatus.SPOOF"
                 /\ RAdd(LResult.confidence, RMul(spec, <<20, 1>>)) = ROne
            ELSE /\ LResult.status = "LivenessStatus.UNCERTAIN"
                 /\ RLe(spike, LResult.confidence)
                 /\ RLe(RSub(ROne, smooth), LResult.confidence)
                 /\ LResult.confidence \in {spike, RSub(ROne, smooth)}

\* both the spike rule and the smoothing rule match, and the spike rule wins
C15_Witness ==
    /\ LivenessReturned
    /\ pixel_samples # <<>>
    /\ RLt(<<7, 10>>, LResult.spike_ratio)
    /\ RLt(<<6, 10>>, LResult.smoothing_ratio)
    /\ LResult.status = "LivenessStatus.HUMAN"

(***************************************************************************)
(* C16.  With frames generated and an empty sample list verify_liveness    *)
(* does not raise: it returns UNCERTAIN, confidence 0, no spike and no     *)
(* smoothed transition counted, and the no-data diagnostic.                *)
(***************************************************************************)
C16_NoSamplesUncertain ==
    (liveness_outcome # "idle" /\ Frames # <<>> /\ pixel_samples = <<>>) =>
        /\ LivenessReturned
        /\ LResult.status = "LivenessStatus.UNCERTAIN"
        /\ LResult.confidence = RZero
        /\ LResult.immediate_spikes = 0
        /\ LResult.smoothed_transitions = 0
        /\ DOMAIN LResult.analysis = {"error"}
        /\ LResult.analysis.error = "No pixel samples provided"

C16_Witness ==
    /\ LivenessReturned
    /\ Len(Frames) = NumFrames
    /\ pixel_samples = <<>>
    /\ LResult.status = "LivenessStatus.UNCERTAIN"

(***************************************************************************)
(* C17.  Every result of verify_liveness, the one for no samples included, *)
(* carries spike_ratio and smoothing_ratio, each the count over the number *)
(* of frames and within [0, 1], and a confidence within [0, 1].            *)
(***************************************************************************)
C17_RatiosCarriedAndInRange ==
    LivenessReturned =>
        /\ {"spike_ratio", "smoothing_ratio"} \subseteq DOMAIN LResult
        /\ LResult.spike_ratio = Rat(LResult.immediate_spikes, Len(Frames))
        /\ LResult.smoothing_ratio = Rat(LResult.smoothed_transitions, Len(Frames))
        /\ InUnitRange(LResult.spike_ratio)
        /\ InUnitRange(LResult.smoothing_ratio)
        /\ InUnitRange(LResult.confidence)

(***************************************************************************)
(* C18.  After any number of generate_challenge calls on a StrobeChallenge,*)
(* whatever its flash duration and interval and the start time, the        *)
(* challenge holds exactly 10 frames with indices 0..9, frame i at         *)
(* start + i * (flash duration + interval), timestamps strictly increasing.*)
(***************************************************************************)
C18_TenFramesStrictlyIncreasing ==
    start_time_ms # None =>
        /\ Len(Frames) = 10
        /\ \A i \in 0 .. 9 :
              /\ Frames[i + 1].frame_index = i
              /\ Frames[i + 1].timestamp_ms =
                     start_time_ms[1]
                     + i * (strobe_challenge.flash_duration_ms + strobe_challenge.interval_ms)
        /\ \A i \in 1 .. 9 : Frames[i].timestamp_ms < Frames[i + 1].timestamp_ms


(***************************************************************************)
(* Vocabulary of the ledger properties.                                    *)
(***************************************************************************)
AnchoredNames == {a[1] : a \in anchored}

AnchoredHashes == {a[2] : a \in anchored}

EntriesOf(blob_name) ==
    {i \in DOMAIN self_ledger_data.entries :
        self_ledger_data.entries[i].blob_name = blob_name}

Uploaded == {blob_name \in BlobNames : blobs[blob_name] # None}

Listed == {ListNewBlobs(self_ledger_data, blobs)[i] :
              i \in DOMAIN ListNewBlobs(self_ledger_data, blobs)}

(***************************************************************************)
(* C19.  After any sequence of process_blob and monitor_and_process calls  *)
(* on one service, verify_hash(h) answers verified = true with status      *)
(* "integrity_confirmed" exactly when some blob anchored so far has        *)
(* content hash h, and verified = false with "hash_not_found" otherwise.   *)
(***************************************************************************)
C19_VerifiedIffAnchored ==
    ledger_op = "verify_hash" =>
        LET video_hash == ledger_result[1].video_hash
            result == ledger_result[1].result
        IN  IF video_hash \in AnchoredHashes
            THEN result.verified = TRUE /\ result.status = "integrity_confirmed"
            ELSE result = [verified |-> FALSE, status |-> "hash_not_found"]

(***************************************************************************)
(* C20.  Over any sequence of passes of one service, monitor_and_process   *)
(* anchors a blob at most once: a blob that was processed successfully is  *)
(* never listed as new again, no pass returns a result or adds an entry    *)
(* for it, and a pass that finds every uploaded blob already anchored      *)
(* returns an empty list and adds no entry.                                *)
(***************************************************************************)
C20_AnchoredAtMostOnce ==
    [][/\ (AnchoredNames \cap Listed = {})'
       /\ ledger_op' = "monitor_and_process" =>
             /\ \A i \in DOMAIN ledger_result'[1] :
                   ledger_result'[1][i].blob_name \notin AnchoredNames
             /\ \A blob_name \in AnchoredNames : EntriesOf(blob_name)' = EntriesOf(blob_name)
             /\ Uploaded \subseteq AnchoredNames =>
                   /\ ledger_result'[1] = <<>>
                   /\ self_ledger_data'.entries = self_ledger_data.entries]_vars

\* a pass over a container whose blobs this service has all anchored
C20_Witness ==
    /\ ledger_op = "monitor_and_process"
    /\ ledger_result = Some(<<>>)
    /\ Uploaded # {}
    /\ Uploaded \subseteq AnchoredNames
    /\ \A blob_name \in Uploaded : EntriesOf(blob_name) # {}


(***************************************************************************)
(* Vocabulary of the frame windows, read off the samples as supplied.      *)
(***************************************************************************)
InBaselineWindow(s, frame) ==
    frame.timestamp_ms - 50 <= s.timestamp_ms /\ s.timestamp_ms < frame.timestamp_ms

InResponseWindow(s, frame) ==
    frame.timestamp_ms <= s.timestamp_ms /\ s.timestamp_ms <= frame.timestamp_ms + 50

SampleIndices == DOMAIN pixel_samples

BaselineOf(frame) == {j \in SampleIndices : InBaselineWindow(pixel_samples[j], frame)}

ResponseOf(frame) == {j \in SampleIndices : InResponseWindow(pixel_samples[j], frame)}

Evaluated(frame) == BaselineOf(frame) # {} /\ ResponseOf(frame) # {}

EvaluatedFrames == {i \in DOMAIN Frames : Evaluated(Frames[i])}

(***************************************************************************)
(* C21.  With frames generated and a non-empty sample list in which every  *)
(* frame is skipped (no frame has both a baseline and a response sample),  *)
(* verify_liveness returns without raising and its status is UNCERTAIN.    *)
(***************************************************************************)
C21_AllSkippedUncertain ==
    (liveness_outcome # "idle" /\ Frames # <<>> /\ pixel_samples # <<>>
         /\ EvaluatedFrames = {}) =>
        /\ LivenessReturned
        /\ LResult.status = "LivenessStatus.UNCERTAIN"


(***************************************************************************)
(* C22.  When the verdict is INCONCLUSIVE with confidence 0.60 (technical  *)
(* noise), the reasoning lists at least one noise condition, and every     *)
(* condition it lists is one that made the noise test true: jitter above   *)
(* 30 ms, or a smoothing ratio strictly between 0.3 and 0.6 (the risk      *)
(* score strictly between 0.3 and 0.5 has no wording of its own).          *)
(***************************************************************************)
ReasoningDetails == {analysis[1].reasoning.details[i] : i \in DOMAIN analysis[1].reasoning.details}

C22_NoiseReasonsNamed ==
    (Returned /\ Verdict = "inconclusive" /\ Confidence = 60) =>
        /\ ReasoningDetails # {}
        /\ "high network jitter" \in ReasoningDetails => PJitter > 30
        /\ "camera smoothing detected" \in ReasoningDetails =>
               (PSmoothing > 30 /\ PSmoothing < 60)


(***************************************************************************)
(* C23: whenever the jitter-mitigation override fires (the sync layer      *)
(* tripped and network jitter is above 50 ms, on a payload that reaches    *)
(* the override, i.e. whose ledger is not mismatched), the analysis        *)
(* records the mitigation: the reasoning details contain the mitigation    *)
(* note or the correlations contain a jitter_mitigation entry.             *)
(***************************************************************************)
MitigationNoted == "Sync issues mitigated by high network jitter" \in ReasoningDetails

C23_MitigationRecorded ==
    (Returned /\ ~PLedgerMismatched /\ PSyncTripped /\ PJitter > 50) =>
        (MitigationNoted \/ "jitter_mitigation" \in CorrelationTypes)


(***************************************************************************)
(* C24: the specularity of an evaluated frame is the larger of the variance*)
(* of its response samples' intensities and the mean of those samples'     *)
(* reported variance, and the specularity_score of the result is the mean  *)
(* of that value over the evaluated frames, 0 when no frame is evaluated.  *)
(***************************************************************************)
ResponseSeqOf(frame) == SelectSeq(pixel_samples, LAMBDA s : InResponseWindow(s, frame))

SpecularityOf(frame) ==
    LET response == ResponseSeqOf(frame)
    IN  RMax(CalculateVariance(<<>> \o Intensities(response)),
             Mean(<<>> \o Variances(response)))

EvaluatedSeq == SelectSeq(Frames, Evaluated)

C24_SpecularityScore ==
    (LivenessReturned /\ pixel_samples # <<>>) =>
        LET evaluated == EvaluatedSeq
            scores == <<>> \o [i \in DOMAIN evaluated |-> SpecularityOf(evaluated[i])]
        IN  LResult.specularity_score = IF scores = <<>> THEN RZero ELSE Mean(scores)


(***************************************************************************)
(* C25: a frame adds one to immediate_spikes exactly when its baseline     *)
(* window [start - 50, start) and its response window [start, start + 50]  *)
(* both hold a sample, the earliest response sample (the first given of    *)
(* those sharing the earliest timestamp) differs from the mean baseline    *)
(* intensity by at least spike_threshold in absolute value, and that sample*)
(* is at most 20 ms after the frame start; each frame adds at most one, so *)
(* immediate_spikes is the number of such frames.                          *)
(***************************************************************************)
BaselineSeqOf(frame) == SelectSeq(pixel_samples, LAMBDA s : InBaselineWindow(s, frame))

EarliestResponse(frame) ==
    pixel_samples[CHOOSE j \in ResponseOf(frame) :
        \A k \in ResponseOf(frame) :
            \/ pixel_samples[j].timestamp_ms < pixel_samples[k].timestamp_ms
            \/ (pixel_samples[j].timestamp_ms = pixel_samples[k].timestamp_ms /\ j <= k)]

ChangeAt(frame) ==
    RAbs(RSub(EarliestResponse(frame).intensity, Mean(Intensities(BaselineSeqOf(frame)))))

SpikeAt(frame) ==
    /\ Evaluated(frame)
    /\ RLe(spike_threshold, ChangeAt(frame))
    /\ EarliestResponse(frame).timestamp_ms <= frame.timestamp_ms + 20

C25_ImmediateSpikes ==
    (LivenessReturned /\ pixel_samples # <<>>) =>
        LResult.immediate_spikes = Cardinality({i \in DOMAIN Frames : SpikeAt(Frames[i])})

C25_Witness ==
    /\ LivenessReturned
    /\ pixel_samples # <<>>
    /\ LResult.immediate_spikes >= 1
    /\ \E i \in DOMAIN Frames :
           /\ Evaluated(Frames[i])
           /\ RLe(spike_threshold, ChangeAt(Frames[i]))
           /\ ~SpikeAt(Frames[i])


(***************************************************************************)
(* C26: whenever the verdict is VERIFIED, liveness is HUMAN, the sync risk *)
(* level is LOW or MEDIUM and the sync layer is not counted as failed,     *)
(* network jitter is at most 30 ms, the ledger is verified or its status   *)
(* is "hash_not_found", and the correlation list is empty.                 *)
(***************************************************************************)
C26_VerifiedMeansClean ==
    (Returned /\ Verdict = "verified") =>
        /\ PHuman
        /\ PRiskLevelIn({"low", "LOW", "medium", "MEDIUM"})
        /\ ~PSyncCounted
        /\ PJitter <= 30
        /\ (PLedgerVerified \/ Ledger["status"] = Some("hash_not_found"))
        /\ analysis[1].correlations = <<>>

\* verified without the ledger: the hash was never anchored
C26_Witness ==
    /\ Returned
    /\ Verdict = "verified"
    /\ Ledger["verified"] = Some(FALSE) /\ Ledger["status"] = Some("hash_not_found")
    /\ PRiskLevelIn({"low"}) /\ PRiskScore = 30 /\ PJitter = 30
    /\ analysis[1].correlations = <<>>


(***************************************************************************)
(* C27: for every payload whose ledger is not mismatched and whose network *)
(* jitter is above 50 ms, the verdict is never MANIPULATED.                *)
(***************************************************************************)
C27_HighJitterNeverManipulated ==
    (Returned /\ ~PLedgerMismatched /\ PJitter > 50) => Verdict # "manipulated"

\* sync tripped and liveness spoofed, under high jitter
C27_Witness ==
    /\ Returned
    /\ ~PLedgerMismatched /\ PJitter > 50
    /\ PSyncTripped /\ PSpoof
    /\ Verdict = "suspicious"


(***************************************************************************)
(* C28: verify_liveness does not depend on the order in which the samples  *)
(* are passed, samples sharing a timestamp included: the same samples in   *)
(* the opposite order give the same status, confidence, spike count,       *)
(* smoothing count and specularity score.                                  *)
(***************************************************************************)
Outcome(r) ==
    <<r.status, r.confidence, r.immediate_spikes, r.smoothed_transitions, r.specularity_score>>

C28_OrderIndependent ==
    LivenessReturned =>
        Outcome(VerifyLiveness(Frames, Reverse(pixel_samples))) = Outcome(LResult)


(***************************************************************************)
(* C29: whenever monitor_and_process reports a blob with status "error"    *)
(* (its download or the save of the ledger failed), that blob has no entry *)
(* in the in-memory ledger and is not among processed_blobs, so the next   *)
(* pass offers it again.                                                   *)
(***************************************************************************)
C29_ErrorLeavesNoTrace ==
    ledger_op = "monitor_and_process" =>
        \A i \in DOMAIN ledger_result[1] :
            ledger_result[1][i].status = "error" =>
                LET blob_name == ledger_result[1][i].blob_name
                IN  /\ EntriesOf(blob_name) = {}
                    /\ blob_name \notin GetProcessedBlobs(self_ledger_data)
                    /\ blob_name \in Listed


(***************************************************************************)
(* C30: with two LedgerMonitorService instances sharing one ledger file    *)
(* and their process_blob calls interleaved, every entry written to the    *)
(* file is still in the file after any later save by either instance.      *)
(***************************************************************************)
FileEntries ==
    {LoadLedger(ledger_file).entries[i] : i \in DOMAIN LoadLedger(ledger_file).entries}

C30_FileKeepsEntries == [][FileEntries \subseteq FileEntries']_vars

====
